---- MODULE Spec2Model ----
(***************************************************************************)
(* A model of the scan engine of the port scanner: the orchestrator        *)
(* (core/scanner.rs scan), the reachability classifier and probe           *)
(* dispatcher (scan_single, tcp_connect, protocol_probe and the six        *)
(* probes) and the heuristic tables (service_name, os_detect_signal,       *)
(* confidence_score), with the PortSet builder of core/ports.rs.           *)
(*                                                                         *)
(* The network is the environment.  It is fixed when a scan starts: every  *)
(* port of the scan resolves (or not) to a list of addresses, and every    *)
(* address answers the classifier's connection attempt, the probe's        *)
(* second connection attempt and the probe's first read in a fixed way.    *)
(***************************************************************************)
EXTENDS Integers, Sequences, FiniteSets, TLC

\* ------------------------------------------------------------------------
\* Bounds of the model
\* ------------------------------------------------------------------------

\* Longest PortSet of the orchestration specification.
MaxPorts == 3

\* Most addresses one (host, port) pair resolves to.
MaxAddrs == 2

\* Batch width.  The source sets WORKERS = 64 (scanner.rs:30); the model
\* scales it down so that a PortSet of MaxPorts ports is split into more
\* than one batch.
WORKERS == 2

\* ------------------------------------------------------------------------
\* Option<T>, as a sequence of at most one element
\* ------------------------------------------------------------------------
None == <<>>
Some(x) == <<x>>

Min(a, b) == IF a <= b THEN a ELSE b

\* ------------------------------------------------------------------------
\* The environment: what one socket address does
\* ------------------------------------------------------------------------

\* Outcome of TcpStream::connect_timeout: "Ok" or the io::ErrorKind.
\* "NetworkUnreachable" stands for every kind other than the three that
\* tcp_connect names.
ConnKinds == {"Ok", "ConnectionRefused", "TimedOut", "WouldBlock", "NetworkUnreachable"}

\* Outcome of the probe's own connect_timeout.
ProbeConnKinds == {"Ok", "ConnectionRefused", "TimedOut"}

\* Bytes, as ASCII codes.
SSH_BANNER == <<83, 83, 72, 45>>          \* b"SSH-"
HTTP_REPLY == <<72, 84, 84, 80>>          \* b"HTTP"

\* What the peer does on the probe connection.  The first read() returns
\* Ok(n) with the n bytes in data (n = 0 is end of file: the peer closed
\* without sending), or Err(kind); more is what the peer sends after the
\* bytes of the first read, for later reads to find.
ReadOkThen(d, m) == [err |-> "Ok", data |-> d, more |-> m]
ReadOk(d) == ReadOkThen(d, <<>>)
ReadErr(k) == [err |-> k, data |-> <<>>, more |-> <<>>]
Silent == ReadErr("TimedOut")
ReadOutcomes ==
    {ReadOkThen(SubSeq(SSH_BANNER, 1, n), SubSeq(SSH_BANNER, n + 1, 4)) : n \in {1, 3, 4}}
        \cup {ReadOk(<<>>), ReadOk(HTTP_REPLY), Silent, ReadErr("ConnectionReset")}

\* An address: the answer to the classifier's connection attempt (conn),
\* to the probe's connection attempt (pconn) and to the probe's read.
\* Fields that are never observed have one fixed value.
AddrBehaviours ==
    {a \in [conn : ConnKinds, pconn : ProbeConnKinds, read : ReadOutcomes] :
        /\ a.conn # "Ok" => a.pconn = "TimedOut"
        /\ a.pconn # "Ok" => a.read = Silent}

RECURSIVE SeqsUpTo(_, _)
SeqsUpTo(S, n) ==
    IF n = 0 THEN {<<>>}
    ELSE LET shorter == SeqsUpTo(S, n - 1)
         IN  shorter \cup {Append(s, x) : s \in {t \in shorter : Len(t) = n - 1}, x \in S}

\* A (host, port) pair: to_socket_addrs fails, or gives a list of addresses.
HostBehaviours ==
    {[resolved |-> FALSE, addrs |-> <<>>]}
        \cup {[resolved |-> TRUE, addrs |-> s] : s \in SeqsUpTo(AddrBehaviours, MaxAddrs)}

\* ------------------------------------------------------------------------
\* Heuristic tables (scanner.rs, 224-272)
\* ------------------------------------------------------------------------

\* service_name with an empty default arm.
service_name_blank_default(port) ==
    IF port = 22 THEN "SSH" ELSE ""

service_name(port) ==
    CASE port \in 1..19 -> "system"
      [] port \in {20, 21} -> "FTP"
      [] port = 22 -> "SSH"
      [] port = 23 -> "TELNET"
      [] port = 25 -> "SMTP"
      [] port = 53 -> "DNS"
      [] port = 80 -> "HTTP"
      [] port = 110 -> "POP3"
      [] port = 143 -> "IMAP"
      [] port = 443 -> "HTTPS"
      [] port = 445 -> "SMB"
      [] port = 3306 -> "MYSQL"
      [] port = 3389 -> "RDP"
      [] port = 5432 -> "POSTGRES"
      [] port = 6379 -> "REDIS"
      [] port = 8080 -> "HTTP-ALT"
      [] OTHER -> "unknown"

os_detect_signal(port, service) ==
    CASE (port = 445 /\ service = "SMB") \/ (port = 3389 /\ service = "RDP") -> Some("Windows")
      [] port = 22 /\ service = "SSH" -> Some("Unix-like")
      [] (port = 80 /\ service = "HTTP") \/ (port = 443 /\ service = "HTTPS") -> Some("Unix-like")
      [] OTHER -> None

\* confidence_score without the arms above ("unknown", _).
confidence_score_flat(service, os) ==
    IF service = "unknown" THEN 30 ELSE 60

\* The arms are tried in the order of the source's match.
confidence_score(service, os) ==
    IF service = "SSH" /\ os # None THEN 95
    ELSE IF service = "HTTP" /\ os # None THEN 90
    ELSE IF service = "HTTPS" /\ os # None THEN 90
    ELSE IF service = "RDP" /\ os = Some("Windows") THEN 95
    ELSE IF service = "SMTP" THEN 85
    ELSE IF service = "MYSQL" THEN 85
    ELSE IF service = "unknown" THEN 30
    ELSE 60

\* ------------------------------------------------------------------------
\* TCP connect (scanner.rs, 128-146)
\* ------------------------------------------------------------------------

TcpResult == {"Open", "Refused", "Timeout"}

\* tcp_connect with WouldBlock left to the catch-all arm.
tcp_connect_would_block_refused(addr) ==
    IF addr.conn = "Ok" THEN "Open"
    ELSE IF addr.conn = "TimedOut" THEN "Timeout"
    ELSE "Refused"

tcp_connect(addr) ==
    IF addr.conn = "Ok" THEN "Open"
    ELSE IF addr.conn \in {"TimedOut", "WouldBlock"} THEN "Timeout"
    ELSE IF addr.conn = "ConnectionRefused" THEN "Refused"
    ELSE "Refused"

\* ------------------------------------------------------------------------
\* Probes (scanner.rs, 151-219)
\* ------------------------------------------------------------------------

\* A zeroed buffer of n bytes: [0u8; n].
Zeroed(n) == [i \in 1..n |-> 0]

\* s.read(&mut buf): Ok(n) copies the n bytes delivered (at most the
\* buffer's length) to the front of buf; Err leaves buf alone.
Read(r, buf) ==
    IF r.err = "Ok"
    THEN LET n == Min(Len(r.data), Len(buf))
         IN  [ok |-> TRUE, n |-> n,
              buf |-> [i \in 1..Len(buf) |-> IF i <= n THEN r.data[i] ELSE buf[i]]]
    ELSE [ok |-> FALSE, n |-> 0, buf |-> buf]

http_probe(addr) ==
    IF addr.pconn = "Ok" THEN Read(addr.read, Zeroed(4)).ok ELSE FALSE

tls_probe(addr) ==
    IF addr.pconn = "Ok" THEN Read(addr.read, Zeroed(1)).ok ELSE FALSE

ssh_probe(addr) ==
    IF addr.pconn = "Ok"
    THEN LET r == Read(addr.read, Zeroed(4))
         IN  IF r.ok THEN r.buf = SSH_BANNER ELSE FALSE
    ELSE FALSE

smtp_probe(addr) ==
    IF addr.pconn = "Ok" THEN Read(addr.read, Zeroed(3)).ok ELSE FALSE

mysql_probe(addr) ==
    IF addr.pconn = "Ok" THEN Read(addr.read, Zeroed(1)).ok ELSE FALSE

rdp_probe(addr) ==
    IF addr.pconn = "Ok" THEN Read(addr.read, Zeroed(1)).ok ELSE FALSE

\* bool::then_some
then_some(b, x) == IF b THEN Some(x) ELSE None

\* The ports protocol_probe has a recipe for.
ProbedPorts == {80, 8080, 8000, 443, 8443, 22, 25, 3306, 3389}

protocol_probe(addr, port) ==
    CASE port \in {80, 8080, 8000} -> then_some(http_probe(addr), "HTTP")
      [] port \in {443, 8443} -> then_some(tls_probe(addr), "HTTPS")
      [] port = 22 -> then_some(ssh_probe(addr), "SSH")
      [] port = 25 -> then_some(smtp_probe(addr), "SMTP")
      [] port = 3306 -> then_some(mysql_probe(addr), "MYSQL")
      [] port = 3389 -> then_some(rdp_probe(addr), "RDP")
      [] OTHER -> None

\* ------------------------------------------------------------------------
\* The sockets of a call: what tcp_connect and protocol_probe open and close
\* ------------------------------------------------------------------------

\* A socket event of a call: who ("classifier" or "probe") did what
\* ("open", "close", or "fail" for a connect that gave no stream) on the
\* address of index ai.
Event(who, ai, ev) == [who |-> who, ai |-> ai, ev |-> ev]

\* tcp_connect handing its stream on, so that it stays open while the
\* probe runs.
tcp_connect_sockets_kept(addr, ai) ==
    IF addr.conn = "Ok" THEN <<Event("classifier", ai, "open")>>
    ELSE <<Event("classifier", ai, "fail")>>

\* tcp_connect (135-136): connect_timeout, and the stream of Ok(_) is
\* dropped before the function returns.
tcp_connect_sockets(addr, ai) ==
    IF addr.conn = "Ok"
    THEN <<Event("classifier", ai, "open"), Event("classifier", ai, "close")>>
    ELSE <<Event("classifier", ai, "fail")>>

\* protocol_probe (151-161): the recipe of the port, if it has one, calls
\* connect_timeout once; its stream is dropped when the recipe returns.
protocol_probe_sockets(addr, ai, port) ==
    IF port \notin ProbedPorts THEN <<>>
    ELSE IF addr.pconn = "Ok"
    THEN <<Event("probe", ai, "open"), Event("probe", ai, "close")>>
    ELSE <<Event("probe", ai, "fail")>>

\* Option::unwrap_or
unwrap_or(o, d) == IF o = None THEN d ELSE o[1]

\* ------------------------------------------------------------------------
\* scan_single (scanner.rs, 74-123): the three places it returns from
\* ------------------------------------------------------------------------

ScanResult(port, status, service, os_hint, confidence) ==
    [port |-> port, status |-> status, service |-> service,
     os_hint |-> os_hint, confidence |-> confidence]

\* The Err arm reporting Closed.
unresolved_result_closed(port) ==
    ScanResult(port, "Closed", service_name(port), None, 0)

\* to_socket_addrs failed (79-87).
unresolved_result(port) ==
    ScanResult(port, "Filtered", service_name(port), None, 0)

\* The Open arm letting an unmatched probe decide the status.
open_result_probe_decides(addr, port) ==
    LET probed == protocol_probe(addr, port)
        service == unwrap_or(probed, service_name(port))
        os_hint == os_detect_signal(port, service)
    IN  ScanResult(port,
                   IF port \in ProbedPorts /\ probed = None THEN "Filtered" ELSE "Open",
                   service, os_hint, confidence_score(service, os_hint))

\* tcp_connect gave Open for addr (94-106).
open_result(addr, port) ==
    LET fallback_service == service_name(port)
        service == unwrap_or(protocol_probe(addr, port), fallback_service)
        os_hint == os_detect_signal(port, service)
        confidence == confidence_score(service, os_hint)
    IN  ScanResult(port, "Open", service, os_hint, confidence)

\* The final return with the confidence taken from the table.
exhausted_result_scored(port, saw_timeout) ==
    ScanResult(port, IF saw_timeout THEN "Filtered" ELSE "Closed",
               service_name(port), None, confidence_score(service_name(port), None))

\* The final return with the two statuses exchanged.
exhausted_result_swapped(port, saw_timeout) ==
    ScanResult(port, IF saw_timeout THEN "Closed" ELSE "Filtered",
               service_name(port), None, 0)

\* No address gave Open (112-122).
exhausted_result(port, saw_timeout) ==
    ScanResult(port, IF saw_timeout THEN "Filtered" ELSE "Closed",
               service_name(port), None, 0)

\* ------------------------------------------------------------------------
\* The orchestrator's pure parts (scanner.rs, 41 and 67)
\* ------------------------------------------------------------------------

\* slice::chunks(w): the number of chunks and the k-th chunk.
\* Only the full batches.
NumChunks_floor(s, w) == Len(s) \div w
NumChunks(s, w) == (Len(s) + w - 1) \div w
\* Chunks of the right lengths, all cut from the front of the list.
Chunk_first(s, w, k) == SubSeq(s, 1, Min(k * w, Len(s)) - (k - 1) * w)
Chunk(s, w, k) == SubSeq(s, (k - 1) * w + 1, Min(k * w, Len(s)))

Front(s) == SubSeq(s, 1, Len(s) - 1)
Last(s) == s[Len(s)]

\* r put behind every element whose key is not greater: the insertion step
\* of a stable sort.
RECURSIVE InsertByKey(_, _)
InsertByKey(r, s) ==
    IF s = <<>> THEN <<r>>
    ELSE IF Last(s).port <= r.port THEN Append(s, r)
    ELSE Append(InsertByKey(r, Front(s)), Last(s))

\* No sort at all.
sort_by_key_none(s) == s

\* A sort that keeps one result per port.
RECURSIVE sort_by_key_dedup(_)
sort_by_key_dedup(s) ==
    IF s = <<>> THEN <<>>
    ELSE LET t == sort_by_key_dedup(Front(s))
         IN  IF \E i \in 1..Len(t) : t[i].port = Last(s).port
             THEN t ELSE InsertByKey(Last(s), t)

\* Vec::sort_by_key(|r| r.port): a stable sort by port.
RECURSIVE sort_by_key(_)
sort_by_key(s) ==
    IF s = <<>> THEN <<>> ELSE InsertByKey(Last(s), sort_by_key(Front(s)))

\* ------------------------------------------------------------------------
\* The PortSet builder (ports.rs) and the port parser (terminal.rs, 303-314)
\* ------------------------------------------------------------------------

\* Longest port string drawn from Chars.
MaxLen == 5

\* Largest distance of a range bound from either end of u16.
MaxRange == 3

U16_MAX == 65535

\* The outcome of a call: not yet returned, returned with a value, or
\* ended by a panic.
Pending == [state |-> "pending", val |-> <<>>]
RetOk(v) == [state |-> "returned", val |-> v]
Panicked == [state |-> "panicked", val |-> <<>>]

\* Ports { ports: Vec<u16> }
Ports(list) == [ports |-> list]

single(port) == Ports(<<port>>)

multiple(list) == Ports(list)

\* Ports::range without the exchange of reversed bounds.
range_no_swap(start, end) ==
    Ports([i \in 1..(end - start + 1) |-> start + i - 1])

\* Ports::range: (a..=b).collect() after the bounds are put in order.
range(start, end) ==
    LET a == IF start <= end THEN start ELSE end
        b == IF start <= end THEN end ELSE start
    IN  Ports([i \in 1..(b - a + 1) |-> a + i - 1])

\* A string is a sequence of characters.
Digits == {"0", "1", "2", "3", "4", "5", "6", "7", "8", "9"}
DigitVal ==
    ("0" :> 0) @@ ("1" :> 1) @@ ("2" :> 2) @@ ("3" :> 3) @@ ("4" :> 4)
        @@ ("5" :> 5) @@ ("6" :> 6) @@ ("7" :> 7) @@ ("8" :> 8) @@ ("9" :> 9)

\* str::contains(char)
contains(s, c) == \E i \in 1..Len(s) : s[i] = c

\* str::split(char): the pieces between the separators, empty ones kept.
RECURSIVE split(_, _)
split(s, c) ==
    IF ~contains(s, c) THEN <<s>>
    ELSE LET i == CHOOSE k \in 1..Len(s) : s[k] = c /\ \A j \in 1..(k - 1) : s[j] # c
         IN  <<SubSeq(s, 1, i - 1)>> \o split(SubSeq(s, i + 1, Len(s)), c)

\* The value of a string of digits, capped just above U16_MAX.
RECURSIVE DecimalValue(_)
DecimalValue(d) ==
    IF d = <<>> THEN 0
    ELSE Min(DecimalValue(SubSeq(d, 1, Len(d) - 1)) * 10 + DigitVal[d[Len(d)]], U16_MAX + 1)

\* A parse that skips every character that is not a digit.
parse_u16_lenient(s) ==
    LET d == SelectSeq(s, LAMBDA c : c \in Digits)
    IN  IF d = <<>> \/ DecimalValue(d) > U16_MAX THEN None ELSE Some(DecimalValue(d))

\* str::parse::<u16>().ok(): an optional '+', then one or more digits and
\* nothing else, of a value that fits u16.
parse_u16(s) ==
    LET d == IF s # <<>> /\ s[1] = "+" THEN Tail(s) ELSE s
    IN  IF d = <<>> \/ (\E i \in 1..Len(d) : d[i] \notin Digits) THEN None
        ELSE IF DecimalValue(d) > U16_MAX THEN None
        ELSE Some(DecimalValue(d))

\* parse_ports: Pending is never its value; Panicked stands for an index
\* out of bounds in p[0], p[1].
parse_ports(raw) ==
    IF contains(raw, ",")
    THEN LET list == [i \in 1..Len(split(raw, ",")) |-> parse_u16(split(raw, ",")[i])]
         IN  IF \E i \in 1..Len(list) : list[i] = None THEN RetOk(None)
             ELSE RetOk(Some(multiple([i \in 1..Len(list) |-> list[i][1]])))
    ELSE IF contains(raw, "-")
    THEN LET p == split(raw, "-")
         IN  IF Len(p) < 2 THEN Panicked
             ELSE IF parse_u16(p[1]) = None \/ parse_u16(p[2]) = None THEN RetOk(None)
             ELSE RetOk(Some(range(parse_u16(p[1])[1], parse_u16(p[2])[1])))
    ELSE IF parse_u16(raw) = None THEN RetOk(None)
         ELSE RetOk(Some(single(parse_u16(raw)[1])))

\* ------------------------------------------------------------------------
\* The TLS ClientHello literal (scanner.rs, 277-292), in decimal
\* ------------------------------------------------------------------------

tls_client_hello ==
    <<22, 3, 1, 0, 79,
      1, 0, 0, 75,
      3, 3,
      83, 67, 79, 82, 69, 0, 1, 2,
      3, 4, 5, 6, 7, 8, 9, 10,
      11, 12, 13, 14, 15, 16, 17, 18,
      19, 20, 21, 22, 23, 24, 25, 26,
      0,
      0, 6, 0, 47, 0, 53, 0, 10,
      1, 0,
      0, 13, 0, 10, 0, 4, 0, 2, 0, 23,
      0, 11, 0, 2, 1, 0>>

\* ------------------------------------------------------------------------
\* State
\* ------------------------------------------------------------------------

VARIABLES
    ports,      \* Ports.ports, the Vec<u16> handed to scan
    net,        \* the environment: port -> HostBehaviours
    opc,        \* where the orchestrator is: "spawn", "drain", "join", "done"
    spawned,    \* number of workers spawned (handles.len())
    senders,    \* who holds a Sender of the channel: 0 is scan's own tx
    chan,       \* results sent and not yet received
    results,    \* the orchestrator's results vector
    joined,     \* number of handles joined
    wpc,        \* where each worker is
    idx,        \* each worker's position in its batch
    cur,        \* each worker's scan_single call in progress
    arg,        \* the call of a PortSet function under study, if any
    ret         \* what that call returned

scanvars == <<ports, net, opc, spawned, senders, chan, results, joined, wpc, idx, cur>>
vars == <<ports, net, opc, spawned, senders, chan, results, joined, wpc, idx, cur, arg, ret>>

Workers == 1..NumChunks(ports, WORKERS)
Batch(w) == Chunk(ports, WORKERS, w)

NoResult == ScanResult(0, "None", "", None, 0)

\* No call in progress.
NoCall ==
    [port |-> 0, addrs |-> <<>>, ai |-> 0, saw_timeout |-> FALSE,
     resolved |-> FALSE, tried |-> <<>>, probe |-> None, pconns |-> 0,
     log |-> <<>>, result |-> NoResult]

Running == {"scan", "connect", "probe", "send", "return"}
Ended == {"finished", "panicked"}

\* ------------------------------------------------------------------------
\* Initial states
\* ------------------------------------------------------------------------

Range(s) == {s[i] : i \in 1..Len(s)}

\* No call of a PortSet function: the scan is all there is.
NoArg == [fn |-> "none", raw |-> <<>>, start |-> 0, end |-> 0]

\* scan is entered with ports ps in the environment n.
ScanInit(ps, n) ==
    /\ ports = ps
    /\ net = n
    /\ opc = "spawn"
    /\ spawned = 0
    /\ senders = {0}
    /\ chan = <<>>
    /\ results = <<>>
    /\ joined = 0
    /\ wpc = [w \in 1..NumChunks(ps, WORKERS) |-> "unspawned"]
    /\ idx = [w \in 1..NumChunks(ps, WORKERS) |-> 0]
    /\ cur = [w \in 1..NumChunks(ps, WORKERS) |-> NoCall]

InitWith(ps, n) ==
    /\ arg = NoArg
    /\ ret = Pending
    /\ ScanInit(ps, n)

\* Ports and hosts of the orchestration specification: three ports, and a
\* host that does not resolve (Filtered), one that refuses (Closed) and one
\* that answers on its second address (Open).
PortUniverse == {22, 80, 8080}
Refusing == [conn |-> "ConnectionRefused", pconn |-> "TimedOut", read |-> Silent]
Dropping == [conn |-> "TimedOut", pconn |-> "TimedOut", read |-> Silent]
Answering == [conn |-> "Ok", pconn |-> "Ok", read |-> ReadOk(SSH_BANNER)]
ScanHosts ==
    {[resolved |-> FALSE, addrs |-> <<>>],
     [resolved |-> TRUE, addrs |-> <<Refusing>>],
     [resolved |-> TRUE, addrs |-> <<Dropping, Answering>>]}

Init ==
    \E ps \in SeqsUpTo(PortUniverse, MaxPorts) :
        \E n \in [Range(ps) -> ScanHosts] : InitWith(ps, n)

\* Ports of the single-call specification: one of every arm of
\* service_name and of protocol_probe that the tables tell apart.
SinglePorts == {7, 21, 22, 25, 80, 443, 445, 3306, 3389, 8000, 8080, 8443, 9999}

InitSingle ==
    \E p \in SinglePorts :
        \E h \in HostBehaviours : InitWith(<<p>>, [q \in {p} |-> h])

\* ------------------------------------------------------------------------
\* The orchestrator (scanner.rs, 36-69)
\* ------------------------------------------------------------------------

\* One turn of `for batch in ports.ports.chunks(WORKERS)`: clone tx, spawn.
Spawn ==
    /\ opc = "spawn"
    /\ spawned < NumChunks(ports, WORKERS)
    /\ spawned' = spawned + 1
    /\ senders' = senders \cup {spawned + 1}
    /\ wpc' = [wpc EXCEPT ![spawned + 1] = "scan"]
    /\ idx' = [idx EXCEPT ![spawned + 1] = 1]
    /\ UNCHANGED <<arg, ret, ports, net, opc, chan, results, joined, cur>>

\* The orchestrator keeping its own Sender through the drain.
DropTx_keep ==
    /\ opc = "spawn"
    /\ spawned = NumChunks(ports, WORKERS)
    /\ opc' = "drain"
    /\ UNCHANGED <<arg, ret, ports, net, spawned, senders, chan, results, joined, wpc, idx, cur>>

\* drop(tx), after the last batch.
DropTx ==
    /\ opc = "spawn"
    /\ spawned = NumChunks(ports, WORKERS)
    /\ senders' = senders \ {0}
    /\ opc' = "drain"
    /\ UNCHANGED <<arg, ret, ports, net, spawned, chan, results, joined, wpc, idx, cur>>

\* One turn of `for r in rx`: a result is there.
Recv ==
    /\ opc = "drain"
    /\ chan # <<>>
    /\ results' = Append(results, Head(chan))
    /\ chan' = Tail(chan)
    /\ UNCHANGED <<arg, ret, ports, net, opc, spawned, senders, joined, wpc, idx, cur>>

\* `for r in rx` ends: the channel is empty and every Sender is dropped.
DrainEnd ==
    /\ opc = "drain"
    /\ chan = <<>>
    /\ senders = {}
    /\ opc' = "join"
    /\ UNCHANGED <<arg, ret, ports, net, spawned, senders, chan, results, joined, wpc, idx, cur>>

\* One turn of `for h in handles`: h.join() returns once the thread has
\* ended, normally or not; its Result is dropped.
Join ==
    /\ opc = "join"
    /\ joined < spawned
    /\ wpc[joined + 1] \in Ended
    /\ joined' = joined + 1
    /\ UNCHANGED <<arg, ret, ports, net, opc, spawned, senders, chan, results, wpc, idx, cur>>

\* results.sort_by_key(|r| r.port); results
Sort ==
    /\ opc = "join"
    /\ joined = spawned
    /\ results' = sort_by_key(results)
    /\ opc' = "done"
    /\ UNCHANGED <<arg, ret, ports, net, spawned, senders, chan, joined, wpc, idx, cur>>

\* ------------------------------------------------------------------------
\* A worker (scanner.rs, 46-51) and its scan_single calls (74-123)
\* ------------------------------------------------------------------------

Finish(w, call, r) ==
    /\ cur' = [cur EXCEPT ![w] = [call EXCEPT !.result = r]]
    /\ wpc' = [wpc EXCEPT ![w] = "send"]

\* scan_single starts for the next port of the batch: to_socket_addrs.
Resolve(w) ==
    /\ wpc[w] = "scan"
    /\ LET port == Batch(w)[idx[w]]
           h == net[port]
           call == [NoCall EXCEPT !.port = port, !.resolved = h.resolved,
                                  !.addrs = h.addrs, !.ai = 1]
       IN  IF ~h.resolved THEN Finish(w, call, unresolved_result(port))
           ELSE IF h.addrs = <<>> THEN Finish(w, call, exhausted_result(port, FALSE))
           ELSE /\ cur' = [cur EXCEPT ![w] = call]
                /\ wpc' = [wpc EXCEPT ![w] = "connect"]
    /\ UNCHANGED <<arg, ret, ports, net, opc, spawned, senders, chan, results, joined, idx>>

\* One turn of `for addr in addrs`: tcp_connect(addr).  The stream of a
\* successful attempt is dropped at once.
Connect(w) ==
    /\ wpc[w] = "connect"
    /\ LET c == cur[w]
           t == tcp_connect(c.addrs[c.ai])
           tried == Append(c.tried, t)
           log == c.log \o tcp_connect_sockets(c.addrs[c.ai], c.ai)
       IN  IF t = "Open"
           THEN /\ cur' = [cur EXCEPT ![w] = [c EXCEPT !.tried = tried, !.log = log]]
                /\ wpc' = [wpc EXCEPT ![w] = "probe"]
           ELSE LET saw == c.saw_timeout \/ t = "Timeout"
                    call == [c EXCEPT !.tried = tried, !.saw_timeout = saw,
                                      !.log = log, !.ai = c.ai + 1]
                IN  IF c.ai < Len(c.addrs)
                    THEN /\ cur' = [cur EXCEPT ![w] = call]
                         /\ UNCHANGED wpc
                    ELSE Finish(w, call, exhausted_result(c.port, saw))
    /\ UNCHANGED <<arg, ret, ports, net, opc, spawned, senders, chan, results, joined, idx>>

\* The Open arm: protocol_probe on the address that accepted, then the
\* tables.  A port with a recipe opens one more connection.
Probe(w) ==
    /\ wpc[w] = "probe"
    /\ LET c == cur[w]
           addr == c.addrs[c.ai]
           call == [c EXCEPT !.probe = Some(protocol_probe(addr, c.port)),
                             !.pconns = IF c.port \in ProbedPorts THEN 1 ELSE 0,
                             !.log = c.log \o protocol_probe_sockets(addr, c.ai, c.port)]
       IN  Finish(w, call, open_result(addr, c.port))
    /\ UNCHANGED <<arg, ret, ports, net, opc, spawned, senders, chan, results, joined, idx>>

\* let _ = tx.send(result), and on to the next port of the batch.
Send(w) ==
    /\ wpc[w] = "send"
    /\ chan' = Append(chan, cur[w].result)
    /\ cur' = [cur EXCEPT ![w] = NoCall]
    /\ idx' = [idx EXCEPT ![w] = idx[w] + 1]
    /\ wpc' = [wpc EXCEPT ![w] = IF idx[w] < Len(Batch(w)) THEN "scan" ELSE "return"]
    /\ UNCHANGED <<arg, ret, ports, net, opc, spawned, senders, results, joined>>

\* The closure returns: its tx is dropped.
Return(w) ==
    /\ wpc[w] = "return"
    /\ senders' = senders \ {w}
    /\ wpc' = [wpc EXCEPT ![w] = "exit"]
    /\ UNCHANGED <<arg, ret, ports, net, opc, spawned, chan, results, joined, idx, cur>>

\* The thread ends; join on it can return.
Exit(w) ==
    /\ wpc[w] = "exit"
    /\ wpc' = [wpc EXCEPT ![w] = "finished"]
    /\ UNCHANGED <<arg, ret, ports, net, opc, spawned, senders, chan, results, joined, idx, cur>>

\* A panic that also discards what is queued in the channel.
Panic_poisons(w) ==
    /\ wpc[w] \in Running
    /\ senders' = senders \ {w}
    /\ chan' = <<>>
    /\ cur' = [cur EXCEPT ![w] = NoCall]
    /\ wpc' = [wpc EXCEPT ![w] = "panicked"]
    /\ UNCHANGED <<arg, ret, ports, net, opc, spawned, results, joined, idx>>

\* The thread ends abnormally (a panic): unwinding drops its tx and the
\* call in progress; what it has sent stays in the channel.
Panic(w) ==
    /\ wpc[w] \in Running
    /\ senders' = senders \ {w}
    /\ cur' = [cur EXCEPT ![w] = NoCall]
    /\ wpc' = [wpc EXCEPT ![w] = "panicked"]
    /\ UNCHANGED <<arg, ret, ports, net, opc, spawned, chan, results, joined, idx>>

Next ==
    \/ Spawn
    \/ DropTx
    \/ Recv
    \/ DrainEnd
    \/ Join
    \/ Sort
    \/ \E w \in Workers : Resolve(w)
    \/ \E w \in Workers : Connect(w)
    \/ \E w \in Workers : Probe(w)
    \/ \E w \in Workers : Send(w)
    \/ \E w \in Workers : Return(w)
    \/ \E w \in Workers : Exit(w)
    \/ \E w \in Workers : Panic(w)

\* Scans of up to MaxPorts ports by several workers.
Spec == Init /\ [][Next]_vars

\* One scan_single call, for every port class and every host.
SpecSingle == InitSingle /\ [][Next]_vars

\* Hosts of the fair scans: one whose only address refuses, and one that
\* drops on its first address and answers on its second.
FairHosts ==
    {[resolved |-> TRUE, addrs |-> <<Refusing>>],
     [resolved |-> TRUE, addrs |-> <<Dropping, Answering>>]}

\* Ports of the fair scans: one with a probe recipe and one without.
FairPorts == {22, 8080}

\* Scans in which no thread stops for ever while it has a step to take:
\* every scan_single call ends (each of its waits has a timeout), and the
\* orchestrator and the workers are scheduled.
InitFair ==
    \E ps \in SeqsUpTo(FairPorts, MaxPorts) :
        \E n \in [Range(ps) -> FairHosts] : InitWith(ps, n)

FairSpec == InitFair /\ [][Next]_vars /\ WF_vars(Next)

\* ------------------------------------------------------------------------
\* Calls of the PortSet functions and of tls_client_hello, on their own
\* ------------------------------------------------------------------------

\* Characters of the port strings: digits, both separators, the sign that
\* parse accepts and a blank.
Chars == {"0", "2", "7", ",", "-", "+", " "}

\* The strings of the specification's examples.
ExampleStrings ==
    {<<"2", "2">>,
     <<"2", "0", "-", "2", "2">>,
     <<"2", "2", ",", "8", "0", ",", "4", "4", "3">>,
     <<"2", "0", "-", "2", "2", ",", "8", "0">>,
     <<"2", "0", "-", "2", "2", "-", "3", "0">>,
     <<"6", "5", "5", "3", "5">>,
     <<"6", "5", "5", "3", "6">>}

PortStrings == SeqsUpTo(Chars, MaxLen) \cup ExampleStrings

\* Range bounds near both ends of u16.
RangeBounds == (0..MaxRange) \cup ((U16_MAX - MaxRange)..U16_MAX)

\* The ranges of the specification's example.
ExampleRanges == {<<200, 20>>, <<20, 200>>}

InitPure ==
    /\ ScanInit(<<>>, <<>>)
    /\ ret = Pending
    /\ \/ \E raw \in PortStrings : arg = [NoArg EXCEPT !.fn = "parse_ports", !.raw = raw]
       \/ \E a, b \in RangeBounds :
             /\ a - b <= MaxRange /\ b - a <= MaxRange
             /\ arg = [NoArg EXCEPT !.fn = "range", !.start = a, !.end = b]
       \/ \E e \in ExampleRanges :
             arg = [NoArg EXCEPT !.fn = "range", !.start = e[1], !.end = e[2]]
       \/ arg = [NoArg EXCEPT !.fn = "tls_client_hello"]

Call_parse_ports ==
    /\ arg.fn = "parse_ports"
    /\ ret = Pending
    /\ ret' = parse_ports(arg.raw)
    /\ UNCHANGED <<arg, scanvars>>

Call_range ==
    /\ arg.fn = "range"
    /\ ret = Pending
    /\ ret' = RetOk(range(arg.start, arg.end))
    /\ UNCHANGED <<arg, scanvars>>

Call_tls_client_hello ==
    /\ arg.fn = "tls_client_hello"
    /\ ret = Pending
    /\ ret' = RetOk(tls_client_hello)
    /\ UNCHANGED <<arg, scanvars>>

NextPure ==
    \/ Call_parse_ports
    \/ Call_range
    \/ Call_tls_client_hello

\* One call of parse_ports, Ports::range or tls_client_hello.
SpecPure == InitPure /\ [][NextPure]_vars

\* ------------------------------------------------------------------------
\* Vocabulary of the properties
\* ------------------------------------------------------------------------

Done == opc = "done"
NoPanic == \A w \in Workers : wpc[w] # "panicked"
DupFree(s) == \A i, j \in 1..Len(s) : i # j => s[i] # s[j]
Count(s, p) == Cardinality({i \in 1..Len(s) : s[i] = p})
PortsOf(rs) == [i \in 1..Len(rs) |-> rs[i].port]
StrictlyAscending(s) == \A i \in 1..(Len(s) - 1) : s[i] < s[i + 1]
Ascending(s) == \A i \in 1..(Len(s) - 1) : s[i] <= s[i + 1]

\* The workers whose scan_single call has just produced its result.
Returned == {w \in Workers : wpc[w] = "send"}

\* The address that accepted the classifier's connection in w's call.
Accepting(w) == cur[w].addrs[Len(cur[w].tried)]

\* Every ScanResult there is: ready to be sent, in the channel, received.
AllResults ==
    {cur[w].result : w \in Returned}
        \cup Range(chan) \cup Range(results)

\* ------------------------------------------------------------------------
\* Properties of the orchestrator (checked under Spec)
\* ------------------------------------------------------------------------

\* C1: for a duplicate-free PortSet, when no worker ended abnormally, the
\* returned list has exactly one result for each requested port, none for
\* any other port, and is strictly ascending by port.
C1_OneResultPerPortAscending ==
    (Done /\ NoPanic /\ DupFree(ports)) =>
        /\ \A p \in Range(ports) : Count(PortsOf(results), p) = 1
        /\ Range(PortsOf(results)) \subseteq Range(ports)
        /\ StrictlyAscending(PortsOf(results))

\* Three distinct ports, not submitted in ascending order, scanned by two
\* workers.
C1_Witness ==
    /\ Done /\ NoPanic /\ DupFree(ports)
    /\ Len(ports) = 3 /\ ports[1] > ports[3]
    /\ Cardinality(Workers) = 2

\* C2: when no worker ended abnormally, the multiset of ports of the
\* returned results is the multiset of ports submitted (duplicates are
\* never merged); an empty PortSet spawns no worker and returns an empty
\* list.
C2_MultisetPreserved ==
    /\ (Done /\ NoPanic) =>
          \A p \in Range(ports) \cup Range(PortsOf(results)) :
              Count(PortsOf(results), p) = Count(ports, p)
    /\ ports = <<>> => (spawned = 0 /\ results = <<>>)

\* A port submitted twice, to two different workers.
C2_Witness ==
    /\ Done /\ NoPanic
    /\ Len(ports) = 3 /\ ports[1] = ports[3] /\ ports[2] # ports[1]
    /\ Count(PortsOf(results), ports[1]) = 2

\* C3 as stated: the output is strictly ascending by port for every
\* PortSet, duplicates included.
C3_StrictlyAscendingAlways ==
    Done => StrictlyAscending(PortsOf(results))

\* C3, amended: the output is ascending by port for every PortSet and every
\* order of completion: each result's port is less than or equal to the
\* port of the result that follows it.
C3_AscendingAlways ==
    Done => Ascending(PortsOf(results))

\* A PortSet with a duplicate, submitted out of order, all results back.
C3_Witness ==
    /\ Done /\ NoPanic
    /\ Len(ports) = 3 /\ ports[1] > ports[2] /\ ports[3] = ports[1]
    /\ Len(results) = 3

\* ------------------------------------------------------------------------
\* Properties of scan_single (checked under SpecSingle)
\* ------------------------------------------------------------------------

\* C4: after a successful resolution the addresses are tried in resolution
\* order; the first that gives Open makes the status Open and none after it
\* is tried; with no Open the status is Filtered if some address gave
\* Timeout, wherever it stands, and Closed otherwise.
C4_Classification ==
    \A w \in Returned :
        LET c == cur[w]
            out == [i \in 1..Len(c.addrs) |-> tcp_connect(c.addrs[i])]
            opens == {i \in 1..Len(c.addrs) : out[i] = "Open"}
        IN  c.resolved =>
              /\ Len(c.tried) <= Len(c.addrs)
              /\ \A i \in 1..Len(c.tried) : c.tried[i] = out[i]
              /\ opens # {} =>
                    /\ c.result.status = "Open"
                    /\ Len(c.tried) \in opens
                    /\ \A i \in opens : Len(c.tried) <= i
              /\ opens = {} =>
                    /\ Len(c.tried) = Len(c.addrs)
                    /\ c.result.status =
                          IF \E i \in 1..Len(c.addrs) : out[i] = "Timeout"
                          THEN "Filtered" ELSE "Closed"

\* A timeout followed by a refusal: Filtered.
C4_Witness ==
    \E w \in Returned :
        /\ cur[w].resolved
        /\ cur[w].tried = <<"Timeout", "Refused">>
        /\ cur[w].result.status = "Filtered"

\* C5 as stated: a result is Closed only if resolution succeeded and every
\* resolved address failed with the connection-refused error.
C5_ClosedOnlyIfAllRefused ==
    \A w \in Returned :
        cur[w].result.status = "Closed" =>
            /\ cur[w].resolved
            /\ \A i \in 1..Len(cur[w].addrs) :
                   cur[w].addrs[i].conn = "ConnectionRefused"

\* C5, amended: a result is Closed only if resolution succeeded and every
\* resolved address was tried and failed with an error that is neither
\* timed-out nor would-block: connection refused, or any other I/O error.
C5_ClosedOnlyIfNoneOpenNoneTimedOut ==
    \A w \in Returned :
        cur[w].result.status = "Closed" =>
            /\ cur[w].resolved
            /\ Len(cur[w].tried) = Len(cur[w].addrs)
            /\ \A i \in 1..Len(cur[w].addrs) :
                   cur[w].addrs[i].conn \notin {"Ok", "TimedOut", "WouldBlock"}

\* Closed after a refusal and an unreachable network.
C5_Witness ==
    \E w \in Returned :
        /\ cur[w].result.status = "Closed"
        /\ Len(cur[w].addrs) = 2
        /\ cur[w].addrs[1].conn = "ConnectionRefused"
        /\ cur[w].addrs[2].conn = "NetworkUnreachable"

\* C6: when resolution fails scan_single returns Filtered, confidence 0,
\* the fallback service name and no os_hint, having opened no connection
\* and run no probe; scan returns that result, not an error.
C6_UnresolvedIsFiltered ==
    /\ \A w \in Returned :
          ~cur[w].resolved =>
              /\ cur[w].result =
                     ScanResult(cur[w].port, "Filtered", service_name(cur[w].port), None, 0)
              /\ cur[w].tried = <<>>
              /\ cur[w].pconns = 0
              /\ cur[w].probe = None
    /\ (Done /\ NoPanic) =>
          \A i \in 1..Len(ports) :
              ~net[ports[i]].resolved =>
                  \E j \in 1..Len(results) :
                      results[j] =
                          ScanResult(ports[i], "Filtered", service_name(ports[i]), None, 0)

\* The scan of an unresolvable host has returned.
C6_Witness ==
    /\ Done /\ NoPanic
    /\ Len(ports) = 1 /\ ~net[ports[1]].resolved
    /\ Len(results) = 1 /\ results[1].status = "Filtered"

\* The listener of w's call completed both handshakes and then sent
\* nothing within the probe window.
SilentListener(w) ==
    /\ cur[w].result.status = "Open"
    /\ Accepting(w).pconn = "Ok"
    /\ Accepting(w).read = Silent

\* C7 as stated: for every port, a listener that completes the handshake
\* and sends nothing gives Open, the fallback name, no os_hint and
\* confidence 60.
C7_SilentListenerScores60 ==
    \A w \in Returned :
        SilentListener(w) =>
            cur[w].result =
                ScanResult(cur[w].port, "Open", service_name(cur[w].port), None, 60)

\* What the tables give for the fallback name of each port class.
SilentExpected ==
    (7 :> <<"system", None, 60>>) @@ (21 :> <<"FTP", None, 60>>)
        @@ (22 :> <<"SSH", Some("Unix-like"), 95>>)
        @@ (25 :> <<"SMTP", None, 85>>)
        @@ (80 :> <<"HTTP", Some("Unix-like"), 90>>)
        @@ (443 :> <<"HTTPS", Some("Unix-like"), 90>>)
        @@ (445 :> <<"SMB", Some("Windows"), 60>>)
        @@ (3306 :> <<"MYSQL", None, 85>>)
        @@ (3389 :> <<"RDP", Some("Windows"), 95>>)
        @@ (8000 :> <<"unknown", None, 30>>)
        @@ (8080 :> <<"HTTP-ALT", None, 60>>)
        @@ (8443 :> <<"unknown", None, 30>>)
        @@ (9999 :> <<"unknown", None, 30>>)

\* C7, amended: a listener that completes the handshake and sends nothing
\* gives Open and the fallback name, with the os_hint and confidence the
\* tables give for that name: none and 60 only where the fallback name is
\* none of SSH, HTTP, HTTPS, SMB, RDP, SMTP, MYSQL, unknown (ports 1-21, 23,
\* 53, 110, 143, 5432, 6379, 8080); Unix-like/95 for 22, Unix-like/90 for
\* 80 and 443, Windows/95 for 3389, Windows/60 for 445, none/85 for 25 and
\* 3306, none/30 for a port whose fallback name is "unknown".
C7_SilentListenerScoresByFallback ==
    \A w \in Returned :
        SilentListener(w) =>
            LET e == SilentExpected[cur[w].port]
            IN  cur[w].result = ScanResult(cur[w].port, "Open", e[1], e[2], e[3])

\* A silent listener on port 22.
C7_Witness ==
    \E w \in Returned :
        /\ SilentListener(w)
        /\ cur[w].port = 22
        /\ cur[w].result.confidence = 95

\* C8: every Closed or Filtered result has confidence 0, the fallback name
\* and no os_hint; refusal by every resolved address gives Closed and
\* timeout of every resolved address gives Filtered.
C8_NotOpenScoresZero ==
    /\ \A r \in AllResults :
          r.status \in {"Closed", "Filtered"} =>
              /\ r.confidence = 0
              /\ r.service = service_name(r.port)
              /\ r.os_hint = None
    /\ \A w \in Returned :
          (cur[w].resolved /\ cur[w].addrs # <<>>) =>
              /\ (\A i \in 1..Len(cur[w].addrs) : cur[w].addrs[i].conn = "ConnectionRefused")
                    => cur[w].result.status = "Closed"
              /\ (\A i \in 1..Len(cur[w].addrs) : cur[w].addrs[i].conn = "TimedOut")
                    => cur[w].result.status = "Filtered"

\* Port 22 refused by both of its addresses.
C8_Witness ==
    \E w \in Returned :
        /\ cur[w].port = 22
        /\ cur[w].tried = <<"Refused", "Refused">>
        /\ cur[w].result = ScanResult(22, "Closed", "SSH", None, 0)

\* C9: in every ScanResult confidence is within 0..100 and service is not
\* the empty string.
C9_ConfidenceAndServiceRanges ==
    \A r \in AllResults :
        /\ r.confidence \in 0..100
        /\ r.service # ""

\* An Open result of a port outside the service table, received.
C9_Witness ==
    /\ Done
    /\ Len(results) = 1
    /\ results[1] = ScanResult(9999, "Open", "unknown", None, 30)

\* C10: for a probed port other than 22 the probe confirms the service
\* exactly when at least one byte is readable from the peer; a peer that
\* accepts the probe connection and delivers no byte is not confirmed.
C10_ConfirmedIffByteReadable ==
    \A w \in Returned :
        (cur[w].result.status = "Open" /\ cur[w].port \in ProbedPorts \ {22}) =>
            LET a == Accepting(w)
            IN  (cur[w].probe # Some(None)) <=>
                    /\ a.pconn = "Ok"
                    /\ a.read.err = "Ok"
                    /\ Len(a.read.data) >= 1

\* The bytes the peer of w's probe connection sends, first read and later.
PeerStream(w) == Accepting(w).read.data \o Accepting(w).read.more

\* C11: port 22 with a peer that sends bytes beginning with "SSH-" gives
\* Open, "SSH", "Unix-like", 95; and ssh_probe matches exactly when the
\* first 4 bytes the peer sends are "SSH-", however they are split across
\* reads.
C11_SshMatchesFirstFourBytes ==
    \A w \in Returned :
        (cur[w].port = 22 /\ cur[w].result.status = "Open") =>
            LET a == Accepting(w)
                sends_ssh ==
                    /\ a.pconn = "Ok"
                    /\ a.read.err = "Ok"
                    /\ Len(PeerStream(w)) >= 4
                    /\ SubSeq(PeerStream(w), 1, 4) = SSH_BANNER
            IN  /\ sends_ssh =>
                      cur[w].result = ScanResult(22, "Open", "SSH", Some("Unix-like"), 95)
                /\ (cur[w].probe = Some(Some("SSH"))) <=> sends_ssh

\* C12: when the classifier gave Open and the probe's own connection
\* fails, the probe gives no match and the result is Open with the fallback
\* name of the port; scan returns it, not an error.
C12_ProbeConnectFailureKeepsOpen ==
    /\ \A w \in Returned :
          (cur[w].tried # <<>> /\ Last(cur[w].tried) = "Open"
              /\ cur[w].port \in ProbedPorts /\ Accepting(w).pconn # "Ok") =>
                  /\ cur[w].probe = Some(None)
                  /\ cur[w].result.status = "Open"
                  /\ cur[w].result.service = service_name(cur[w].port)
    /\ (Done /\ NoPanic) =>
          \A i \in 1..Len(ports) :
              LET h == net[ports[i]]
              IN  (h.resolved /\ Len(h.addrs) = 1 /\ h.addrs[1].conn = "Ok"
                      /\ ports[i] \in ProbedPorts /\ h.addrs[1].pconn # "Ok") =>
                      \E j \in 1..Len(results) :
                          /\ results[j].port = ports[i]
                          /\ results[j].status = "Open"
                          /\ results[j].service = service_name(ports[i])

\* Port 8080 accepts the classifier and refuses the probe.
C12_Witness ==
    \E w \in Returned :
        /\ cur[w].port = 8080
        /\ cur[w].tried = <<"Open">>
        /\ Accepting(w).pconn = "ConnectionRefused"
        /\ cur[w].result = ScanResult(8080, "Open", "HTTP-ALT", None, 60)

\* ------------------------------------------------------------------------
\* Properties of the port parser and the PortSet builder (under SpecPure)
\* ------------------------------------------------------------------------

Str22 == <<"2", "2">>
Str20to22 == <<"2", "0", "-", "2", "2">>
StrList == <<"2", "2", ",", "8", "0", ",", "4", "4", "3">>
StrMixed == <<"2", "0", "-", "2", "2", ",", "8", "0">>

Occurrences(s, c) == Cardinality({i \in 1..Len(s) : s[i] = c})

\* C13: a string with ',' is a list of single ports, otherwise one with
\* '-' is a range, otherwise it is one port; "22", "20-22" and "22,80,443"
\* give {22}, {20,21,22} and {22,80,443}; every string with both ',' and
\* '-' fails to parse.
C13_Grammar ==
    (arg.fn = "parse_ports" /\ ret.state = "returned") =>
        LET raw == arg.raw
            parsed == ret.val
        IN  /\ raw = Str22 => parsed = Some(Ports(<<22>>))
            /\ raw = Str20to22 => parsed = Some(Ports(<<20, 21, 22>>))
            /\ raw = StrList => parsed = Some(Ports(<<22, 80, 443>>))
            /\ (contains(raw, ",") /\ contains(raw, "-")) => parsed = None
            /\ (contains(raw, ",") /\ parsed # None) =>
                  Len(parsed[1].ports) = Occurrences(raw, ",") + 1
            /\ (~contains(raw, ",") /\ contains(raw, "-") /\ parsed # None) =>
                  /\ parsed[1].ports # <<>>
                  /\ \A i \in 1..(Len(parsed[1].ports) - 1) :
                         parsed[1].ports[i + 1] = parsed[1].ports[i] + 1
            /\ (~contains(raw, ",") /\ ~contains(raw, "-") /\ parsed # None) =>
                  Len(parsed[1].ports) = 1

\* "20-22,80" has been refused.
C13_Witness ==
    /\ arg.fn = "parse_ports"
    /\ arg.raw = StrMixed
    /\ ret = RetOk(None)

\* C14: a string with '-' and no ',' is split once at the first '-'; it
\* gives a range exactly when the text before and the whole text after
\* both parse as ports, and fails otherwise; it never panics.
C14_SplitOnce ==
    (arg.fn = "parse_ports" /\ ret # Pending
        /\ ~contains(arg.raw, ",") /\ contains(arg.raw, "-")) =>
        LET raw == arg.raw
            i == CHOOSE k \in 1..Len(raw) : raw[k] = "-" /\ \A j \in 1..(k - 1) : raw[j] # "-"
            before == parse_u16(SubSeq(raw, 1, i - 1))
            after == parse_u16(SubSeq(raw, i + 1, Len(raw)))
        IN  /\ ret.state = "returned"
            /\ ret.val # None <=> (before # None /\ after # None)
            /\ ret.val # None => ret.val = Some(range(before[1], after[1]))

\* C15: range(a, b) is the ports from min(a, b) to max(a, b), each once,
\* so range(a, b) and range(b, a) are the same and range(a, a) is <<a>>.
C15_RangeNormalizes ==
    (arg.fn = "range" /\ ret.state = "returned") =>
        LET lo == Min(arg.start, arg.end)
            hi == IF arg.start <= arg.end THEN arg.end ELSE arg.start
            ps == ret.val.ports
        IN  /\ Len(ps) = hi - lo + 1
            /\ \A i \in 1..Len(ps) : ps[i] = lo + i - 1
            /\ \A p \in lo..hi : Count(ps, p) = 1
            /\ ret.val = range(arg.end, arg.start)
            /\ arg.start = arg.end => ps = <<arg.start>>

\* range(200, 20) has returned the 181 ports from 20 to 200.
C15_Witness ==
    /\ arg.fn = "range" /\ arg.start = 200 /\ arg.end = 20
    /\ ret.state = "returned"
    /\ Len(ret.val.ports) = 181
    /\ ret.val.ports[1] = 20 /\ ret.val.ports[181] = 200

\* ------------------------------------------------------------------------
\* Properties of the TLS ClientHello literal (under SpecPure)
\* ------------------------------------------------------------------------

\* Big-endian fields of a byte string.
U16At(b, i) == b[i] * 256 + b[i + 1]
U24At(b, i) == b[i] * 65536 + b[i + 1] * 256 + b[i + 2]

\* C18: the literal is a well-formed TLS 1.2 handshake record: type 0x16,
\* record length = bytes after the 5-byte header, handshake type 1 with
\* length = bytes after it, version 0x0303, 32-byte random, empty session
\* id, non-empty cipher-suite list of its stated length, null compression,
\* and an extensions length equal to the size of the supported_groups and
\* ec_point_formats extensions.
C18_ClientHelloWellFormed ==
    (arg.fn = "tls_client_hello" /\ ret.state = "returned") =>
        LET b == ret.val
            cl == U16At(b, 45)          \* cipher-suite list length
            x == 47 + cl                \* compression methods
            e == x + 4                  \* first extension
            l1 == U16At(b, e + 2)
            f == e + 4 + l1             \* second extension
            l2 == U16At(b, f + 2)
        IN  /\ Len(b) >= 57
            /\ b[1] = 22
            /\ U16At(b, 4) = Len(b) - 5
            /\ b[6] = 1
            /\ U24At(b, 7) = Len(b) - 9
            /\ b[10] = 3 /\ b[11] = 3
            /\ b[44] = 0
            /\ cl > 0 /\ cl % 2 = 0 /\ x + 3 <= Len(b)
            /\ b[x] = 1 /\ b[x + 1] = 0
            /\ U16At(b, x + 2) = Len(b) - (x + 3)
            /\ U16At(b, e) = 10
            /\ U16At(b, f) = 11
            /\ U16At(b, x + 2) = (4 + l1) + (4 + l2)

\* ------------------------------------------------------------------------
\* Abnormal ends, determinism, phases and batches (checked under Spec)
\* ------------------------------------------------------------------------

\* The ports whose results worker w has sent.
Sent(w) == SubSeq(Batch(w), 1, idx[w] - 1)

\* How many results for port p the first n workers have sent.
RECURSIVE SentCount(_, _)
SentCount(n, p) ==
    IF n = 0 THEN 0 ELSE Count(Sent(n), p) + SentCount(n - 1, p)

\* C16: when a worker ends abnormally part-way through its batch, scan
\* still returns: the output is sorted by port and holds exactly the
\* results that were sent (all of every other worker's batch, and what
\* the failed worker sent before it ended), nothing for the ports the
\* failed worker had not sent, and no port twice over; and the scan is
\* never stuck before it returns: a Sender that is still alive belongs to
\* a running worker, and the handle being joined is of a thread that has
\* ended or is ending.
C16_PanicLosesOnlyUnsent ==
    /\ Done =>
          /\ Ascending(PortsOf(results))
          /\ \A w \in Workers :
                wpc[w] # "panicked" => Sent(w) = Batch(w)
          /\ \A p \in Range(ports) \cup Range(PortsOf(results)) :
                Count(PortsOf(results), p) = SentCount(spawned, p)
    /\ ~NoPanic =>
          /\ \A w \in senders : w # 0 => wpc[w] \in Running
          /\ (opc = "join" /\ joined < spawned) =>
                wpc[joined + 1] \in Ended \cup {"exit"}

\* Three ports, two workers: the first worker sent one result and ended
\* abnormally before sending the second; scan returned two results.
C16_Witness ==
    /\ Done
    /\ Len(ports) = 3 /\ DupFree(ports)
    /\ wpc[1] = "panicked" /\ idx[1] = 2
    /\ wpc[2] = "finished"
    /\ PortsOf(results) \in {<<ports[1], ports[3]>>, <<ports[3], ports[1]>>}

\* The first address of a host that accepts the connection, 0 if none.
FirstOpen(addrs) ==
    IF \E i \in 1..Len(addrs) : tcp_connect(addrs[i]) = "Open"
    THEN CHOOSE i \in 1..Len(addrs) :
             /\ tcp_connect(addrs[i]) = "Open"
             /\ \A j \in 1..(i - 1) : tcp_connect(addrs[j]) # "Open"
    ELSE 0

\* The result that the environment fixes for port p.
Expected(p) ==
    LET h == net[p]
        k == FirstOpen(h.addrs)
    IN  IF ~h.resolved THEN unresolved_result(p)
        ELSE IF k # 0 THEN open_result(h.addrs[k], p)
        ELSE exhausted_result(p, \E i \in 1..Len(h.addrs) :
                                     tcp_connect(h.addrs[i]) = "Timeout")

\* C17: in a stable environment the list scan returns is fixed by the
\* PortSet and the environment alone, whatever the interleaving of the
\* workers: it is ascending by port, has the submitted ports with their
\* multiplicities, and every result (port, status, service, os_hint,
\* confidence) is the one the environment fixes for its port; so two runs
\* return equal lists.
C17_OutputFixedByEnvironment ==
    (Done /\ NoPanic) =>
        /\ Ascending(PortsOf(results))
        /\ Len(results) = Len(ports)
        /\ \A p \in Range(ports) : Count(PortsOf(results), p) = Count(ports, p)
        /\ \A i \in 1..Len(results) :
              /\ results[i].port \in Range(ports)
              /\ results[i] = Expected(results[i].port)

\* Two workers, three ports submitted in descending order on hosts of
\* three kinds: the list returned has the three statuses, ascending.
C17_Witness ==
    /\ Done /\ NoPanic
    /\ Len(ports) = 3 /\ ports[1] > ports[2] /\ ports[2] > ports[3]
    /\ {results[i].status : i \in 1..Len(results)} = {"Open", "Closed", "Filtered"}
    /\ PortsOf(results) = <<ports[3], ports[2], ports[1]>>

\* The drain is over only when every Sender is dropped and the channel is
\* empty: every worker has left its loop, and the ones that did not end
\* abnormally have sent their whole batch; the sort comes only after every
\* handle is joined, that is after every thread has ended.
C19_Phases ==
    /\ opc = "drain" => 0 \notin senders
    /\ opc \in {"join", "done"} =>
          /\ senders = {} /\ chan = <<>>
          /\ spawned = Cardinality(Workers)
          /\ \A w \in Workers :
                /\ wpc[w] \in {"exit", "finished", "panicked"}
                /\ wpc[w] # "panicked" => Sent(w) = Batch(w)
          /\ \A p \in Range(ports) :
                Count(PortsOf(results), p) = SentCount(spawned, p)
    /\ Done =>
          /\ joined = spawned
          /\ \A w \in Workers : wpc[w] \in Ended

\* C19: the phases of the orchestrator are ordered drain, join, sort (the
\* drain ends only after every worker has dropped its sender, the sort
\* comes only after every handle is joined), and when every scan_single
\* call terminates, scan eventually returns.
C19_PhasesOrderedAndScanReturns == []C19_Phases /\ <>Done

\* The scan of three ports by two workers has returned after its drain
\* and its two joins.
C19_Witness ==
    /\ Done /\ NoPanic
    /\ Len(ports) = 3 /\ spawned = 2 /\ joined = 2
    /\ Len(results) = 3 /\ senders = {}

\* The workers with a network operation in flight: a resolution, a
\* classifier connect, or a probe.
InFlight == {w \in Workers : wpc[w] \in {"scan", "connect", "probe"}}

\* The port instances of the first n batches, in order.
RECURSIVE Concat(_)
Concat(n) == IF n = 0 THEN <<>> ELSE Concat(n - 1) \o Batch(n)

\* How many results the first n workers have sent.
RECURSIVE SentTotal(_)
SentTotal(n) == IF n = 0 THEN 0 ELSE Len(Sent(n)) + SentTotal(n - 1)

\* C20: for n port instances and batch width W, scan launches exactly
\* ceil(n/W) workers; their batches are consecutive slices of the port
\* list, each of W ports except possibly the last; a worker handles its
\* ports one after another (the call in progress is for the port after the
\* ones it has sent, and every result ready earlier has been sent), so
\* the operations in flight are at most one per worker and at most
\* ceil(n/W) in all.
C20_BatchesAndInFlight ==
    LET n == Len(ports)
        W == WORKERS
    IN  /\ spawned * W < n + W
        /\ opc # "spawn" => spawned * W >= n
        /\ Concat(spawned) = SubSeq(ports, 1, Min(spawned * W, n))
        /\ \A w \in 1..spawned :
              /\ Len(Batch(w)) \in 1..W
              /\ Len(Batch(w)) < W => w * W > n
        /\ \A w \in Workers :
              /\ w > spawned => (wpc[w] = "unspawned" /\ cur[w] = NoCall)
              /\ wpc[w] \in {"connect", "probe", "send"} =>
                    cur[w].port = Batch(w)[idx[w]]
              /\ wpc[w] \in {"scan", "return", "exit", "finished", "panicked"} =>
                    cur[w] = NoCall
        /\ Len(chan) + Len(results) = SentTotal(spawned)
        /\ Cardinality(InFlight) <= spawned

\* Three ports in two batches (two ports and one): both workers are in a
\* connect at once, the first on its second port, whose first result is
\* already with the orchestrator.
C20_Witness ==
    /\ Len(ports) = 3 /\ spawned = 2 /\ opc = "drain"
    /\ Len(Batch(1)) = 2 /\ Len(Batch(2)) = 1
    /\ wpc[1] = "connect" /\ idx[1] = 2
    /\ wpc[2] = "connect" /\ idx[2] = 1
    /\ Len(results) = 1 /\ results[1].port = ports[1]
    /\ InFlight = {1, 2}

\* ------------------------------------------------------------------------
\* Sockets of one scan_single call (checked under SpecSingle)
\* ------------------------------------------------------------------------

\* The connections held after the first k events of a log.
Held(L, k) ==
    Cardinality({i \in 1..k : L[i].ev = "open"})
        - Cardinality({i \in 1..k : L[i].ev = "close"})

\* The probe's connection attempts in a log.
ProbeAttempts(L) ==
    {i \in 1..Len(L) : L[i].who = "probe" /\ L[i].ev \in {"open", "fail"}}

\* C21: within one scan_single call, the probe connects only after the
\* classifier's connection to the same address succeeded and was closed,
\* the worker never holds two connections at once, at most one probe runs
\* per port, and a port outside {22, 25, 80, 443, 3306, 3389, 8000, 8080,
\* 8443} gets no second connection.
C21_ProbeAfterClassifierOnNewSocket ==
    \A w \in Workers :
        LET L == cur[w].log
        IN  /\ \A k \in 0..Len(L) : Held(L, k) \in {0, 1}
            /\ \A k \in ProbeAttempts(L) :
                  /\ k > 2
                  /\ L[k - 2] = Event("classifier", L[k].ai, "open")
                  /\ L[k - 1] = Event("classifier", L[k].ai, "close")
                  /\ tcp_connect(cur[w].addrs[L[k].ai]) = "Open"
                  /\ Held(L, k - 1) = 0
            /\ Cardinality(ProbeAttempts(L)) <= 1
            /\ cur[w].port \notin {22, 25, 80, 443, 3306, 3389, 8000, 8080, 8443} =>
                  /\ \A k \in 1..Len(L) : L[k].who = "classifier"
                  /\ Cardinality({k \in 1..Len(L) : L[k].ev = "open"}) <= 1

\* Port 22 on a host whose first address drops and whose second answers:
\* the classifier failed on the first, opened and closed on the second,
\* and the probe then opened and closed its own connection to the second.
C21_Witness ==
    \E w \in Workers :
        /\ wpc[w] = "send"
        /\ cur[w].port = 22
        /\ cur[w].result.status = "Open"
        /\ cur[w].log = <<Event("classifier", 1, "fail"),
                          Event("classifier", 2, "open"),
                          Event("classifier", 2, "close"),
                          Event("probe", 2, "open"),
                          Event("probe", 2, "close")>>

\* ------------------------------------------------------------------------
\* What the probe outcome changes (checked under SpecSingle)
\* ------------------------------------------------------------------------

\* The probe of w's call matched.
Matched(w) == cur[w].probe # None /\ cur[w].probe[1] # None

\* The probe of w's call ran, or was skipped, and gave no name.
Unmatched(w) == cur[w].probe = Some(None)

\* The Open result of the six ports whose confirmed name is their fallback
\* name.
SameEitherWay(port) ==
    CASE port = 22 -> ScanResult(22, "Open", "SSH", Some("Unix-like"), 95)
      [] port = 25 -> ScanResult(25, "Open", "SMTP", None, 85)
      [] port = 80 -> ScanResult(80, "Open", "HTTP", Some("Unix-like"), 90)
      [] port = 443 -> ScanResult(443, "Open", "HTTPS", Some("Unix-like"), 90)
      [] port = 3306 -> ScanResult(3306, "Open", "MYSQL", None, 85)
      [] port = 3389 -> ScanResult(3389, "Open", "RDP", Some("Windows"), 95)

\* C22: for an Open port in {22, 25, 80, 443, 3306, 3389} the result is
\* the same whether the probe matched or not; for 8000, 8080 and 8443 a
\* match replaces the fallback name ("unknown", "HTTP-ALT", "unknown") by
\* "HTTP" or "HTTPS" with no os_hint and confidence 60; for no other port
\* is there a probe outcome to change anything.
C22_ProbeOutcomeMattersOnlyOnAltPorts ==
    \A w \in Returned :
        LET r == cur[w].result
            port == cur[w].port
        IN  r.status = "Open" =>
              /\ Matched(w) \/ Unmatched(w)
              /\ port \in {22, 25, 80, 443, 3306, 3389} => r = SameEitherWay(port)
              /\ (port \in {8000, 8080} /\ Matched(w)) =>
                    r = ScanResult(port, "Open", "HTTP", None, 60)
              /\ (port = 8443 /\ Matched(w)) =>
                    r = ScanResult(port, "Open", "HTTPS", None, 60)
              /\ (port \in {8000, 8443} /\ Unmatched(w)) =>
                    r = ScanResult(port, "Open", "unknown", None, 30)
              /\ (port = 8080 /\ Unmatched(w)) =>
                    r = ScanResult(port, "Open", "HTTP-ALT", None, 60)
              /\ port \notin {22, 25, 80, 443, 3306, 3389, 8000, 8080, 8443} =>
                    Unmatched(w)

\* Port 3389 is Open and its probe did not match (the peer sent nothing):
\* the result is RDP, Windows, 95 all the same.
C22_Witness ==
    \E w \in Returned :
        /\ cur[w].port = 3389
        /\ Unmatched(w)
        /\ Accepting(w).pconn = "Ok" /\ Accepting(w).read = Silent
        /\ cur[w].result = ScanResult(3389, "Open", "RDP", Some("Windows"), 95)

\* Port 8443 is Open and its probe matched: HTTPS, no os_hint, 60.
C22_WitnessMatched ==
    \E w \in Returned :
        /\ cur[w].port = 8443
        /\ Matched(w)
        /\ cur[w].result = ScanResult(8443, "Open", "HTTPS", None, 60)

====
